---- MODULE Spec2Model ----
(***************************************************************************)
(* A model of anypython.py: the version matcher, the table renderer and    *)
(* the main program (single-match mode and the batch run over every        *)
(* discovered interpreter).  Python strings are TLA+ strings, handled with *)
(* Len, \o and SubSeq only; a list or tuple is a sequence.                 *)
(***************************************************************************)
EXTENDS Integers, Sequences, FiniteSets, TLC

VARIABLES
    desired, gotten, matched,  \* a call of matching_version: arguments, <<result>>
    origdata, rjust, table,    \* a call of format_pretty_table: arguments, <<result>>
    argv,          \* sys.argv, the program's own name first
    installed,     \* the paths the glob pattern matches on this machine
    ttyout,        \* sys.stdout is a terminal: its text layer is line-buffered
    pc,            \* where main() stands
    exes,          \* main: the sorted list of executables
    found,         \* main: the executables that match sys.argv[1]
    procs,         \* every child process started so far, in order of start
    captured,      \* subprocess.run: what it has read from the child's pipe
    rows, counts,  \* run_all: the table rows, the count of each stdout hash
    idx,           \* run_all: the position of "for exe in exes", from 1
    stdout,        \* sys.stdout: text layer, byte buffer, file descriptor
    stderr,        \* the lines written to sys.stderr
    exit_status    \* <<>> while the program runs, then <<its exit status>>

fnvars == <<desired, gotten, matched, origdata, rjust, table>>
progvars == <<argv, installed, ttyout, pc, exes, found, procs, captured,
              rows, counts, idx, stdout, stderr, exit_status>>
vars == <<fnvars, progvars>>

\* the program is not running: the state beside a call of one function alone
ProgramIdle ==
    /\ argv = <<>> /\ installed = {} /\ ttyout = FALSE /\ pc = "idle"
    /\ exes = <<>> /\ found = <<>> /\ procs = <<>> /\ captured = ""
    /\ rows = <<>> /\ counts = <<>> /\ idx = 0
    /\ stdout = [pending |-> "", buffer |-> "", fd |-> ""]
    /\ stderr = <<>> /\ exit_status = <<>>

\* no function is called on its own
NoCall ==
    /\ desired = "" /\ gotten = "" /\ matched = <<>>
    /\ origdata = <<>> /\ rjust = {} /\ table = <<>>

(***************************************************************************)
(* Strings                                                                 *)
(***************************************************************************)
Digits == {"0", "1", "2", "3", "4", "5", "6", "7", "8", "9"}

\* s[i-1] of Python, as a one-character string
Char(s, i) == SubSeq(s, i, i)

\* str(n) / f"{n}" of an int: decimal, "-" for a negative number, no padding
RECURSIVE str(_)
str(n) ==
    IF n < 0 THEN "-" \o str(0 - n)
    ELSE IF n < 10 THEN Char("0123456789", n + 1)
    ELSE str(n \div 10) \o Char("0123456789", (n % 10) + 1)

\* s.replace(old, new) for a one-character old
RECURSIVE replace(_, _, _)
replace(s, old, new) ==
    IF s = "" THEN ""
    ELSE (IF Char(s, 1) = old THEN new ELSE Char(s, 1))
         \o replace(SubSeq(s, 2, Len(s)), old, new)

\* the strings over alphabet A of length exactly n, and of length at most n
RECURSIVE StringsOfLen(_, _)
StringsOfLen(A, n) ==
    IF n = 0 THEN {""}
    ELSE {s \o c : s \in StringsOfLen(A, n - 1), c \in A}

StringsUpTo(A, n) == UNION {StringsOfLen(A, k) : k \in 0..n}

(***************************************************************************)
(* matching_version                                                        *)
(***************************************************************************)
\* range(100) of both generator expressions
RangeStop == 100

\* a faulty variant: the dots of gotten are not removed before the third test
matching_version_keeps_dots(d, g) ==
    \/ d = g
    \/ \E x \in 0..(RangeStop - 1) : d \o "." \o str(x) = g
    \/ \E x \in 0..(RangeStop - 1) : d \o str(x) = g

matching_version(d, g) ==
    \/ d = g
    \/ \E x \in 0..(RangeStop - 1) : d \o "." \o str(x) = g
    \/ LET dotlessgotten == replace(g, ".", "")
       IN  \E x \in 0..(RangeStop - 1) : d \o str(x) = dotlessgotten

\* bounds of the matcher's inputs
MaxDesiredLen == 3
MaxGottenLen == 5
MatchAlphabet == {"0", "1", "."}

\* the pairs the specification names, beside the enumerated ones
NamedPairs ==
    { <<"3.11", "3.11.4">>, <<"38", "3.8.10">>, <<"31", "3.14">>,
      <<"2", "3.12.0">>, <<"3", "3.11.4">>, <<"311", "3.11.4">>,
      <<"3.8", "3.8.10">>, <<"3.8.10", "3.8.10">> }

MatchInputs ==
    (StringsUpTo(MatchAlphabet, MaxDesiredLen)
        \X StringsUpTo(MatchAlphabet, MaxGottenLen)) \cup NamedPairs

InitMatch ==
    /\ \E p \in MatchInputs : desired = p[1] /\ gotten = p[2]
    /\ matched = <<>>
    /\ origdata = <<>> /\ rjust = {} /\ table = <<>>
    /\ ProgramIdle

CallMatchingVersion ==
    /\ pc = "idle"
    /\ matched = <<>>
    /\ matched' = <<matching_version(desired, gotten)>>
    /\ UNCHANGED <<desired, gotten, origdata, rjust, table, progvars>>

NextMatch == CallMatchingVersion

SpecMatch == InitMatch /\ [][NextMatch]_vars

\* t is an integer of 0..99 in decimal without a leading zero
IsDecimalBelow100(t) ==
    /\ Len(t) \in {1, 2}
    /\ \A i \in 1..Len(t) : Char(t, i) \in Digits
    /\ Len(t) = 2 => Char(t, 1) # "0"

\* s = p + t with t such an integer
IsPrefixPlusDecimal(p, s) ==
    /\ Len(p) < Len(s)
    /\ SubSeq(s, 1, Len(p)) = p
    /\ IsDecimalBelow100(SubSeq(s, Len(p) + 1, Len(s)))

\* C1: matching_version(desired, declared) is true exactly when desired =
\* declared, or declared is desired + "." + y, or declared without its dots
\* is desired + y, for an integer y of 0..99 written in decimal without
\* leading zeros; the named pairs match or fail as stated.
C1_MatchIffRules ==
    matched # <<>> =>
        /\ matched[1] = ( \/ desired = gotten
                       \/ IsPrefixPlusDecimal(desired \o ".", gotten)
                       \/ IsPrefixPlusDecimal(desired, replace(gotten, ".", "")) )
        /\ <<desired, gotten>> \in
              {<<"3.11", "3.11.4">>, <<"38", "3.8.10">>, <<"31", "3.14">>}
              => matched[1] = TRUE
        /\ <<desired, gotten>> \in {<<"2", "3.12.0">>, <<"3", "3.11.4">>}
              => matched[1] = FALSE

\* the dot-less rule alone has decided a call: "38" against "3.8.10"
C1_Witness ==
    /\ matched = <<TRUE>>
    /\ desired = "38" /\ gotten = "3.8.10"
    /\ ~IsPrefixPlusDecimal(desired \o ".", gotten)

(***************************************************************************)
(* format_pretty_table                                                     *)
(***************************************************************************)
\* a cell is a str or an int; a row is None or a list/tuple of cells
StrCell(s) == [kind |-> "str", s |-> s, n |-> 0]
IntCell(n) == [kind |-> "int", s |-> "", n |-> n]
None == [isnone |-> TRUE, cells |-> <<>>]
Row(cells) == [isnone |-> FALSE, cells |-> cells]

\* str(cell) of map(str, row)
pystr(cell) == IF cell.kind = "int" THEN str(cell.n) ELSE cell.s

\* c * n for a one-character string c
RECURSIVE repeat(_, _)
repeat(c, n) == IF n <= 0 THEN "" ELSE c \o repeat(c, n - 1)

\* s.rjust(width) and s.ljust(width): s itself when it is width long or longer
py_rjust(s, width) == repeat(" ", width - Len(s)) \o s
py_ljust(s, width) == s \o repeat(" ", width - Len(s))

\* sep.join(parts)
RECURSIVE join(_, _)
join(sep, parts) ==
    IF parts = <<>> THEN ""
    ELSE IF Len(parts) = 1 THEN parts[1]
    ELSE parts[1] \o sep \o join(sep, Tail(parts))

\* max() of a set of naturals
MaxOf(S) == CHOOSE m \in S : \A x \in S : x <= m

\* what a call gives: a value returned, or an exception raised
Returned(v) == [raised |-> "", value |-> v]
Raised(e) == [raised |-> e, value |-> ""]

\* line 47: every cell of every row through str
StrRows(od) ==
    [k \in DOMAIN od |->
        IF od[k].isnone THEN <<>>
        ELSE [i \in DOMAIN od[k].cells |-> pystr(od[k].cells[i])]]

\* a faulty variant: the header row (the first that is not None) sets the column count
ColCountOfHeader(od) ==
    LET first == CHOOSE k \in DOMAIN od :
                    /\ ~od[k].isnone
                    /\ \A j \in 1..(k - 1) : od[j].isnone
    IN  Len(od[first].cells)

\* line 48: colcount = max(map(len, rows that are not None))
ColCount(od) == MaxOf({Len(od[k].cells) : k \in {j \in DOMAIN od : ~od[j].isnone}})

\* a faulty variant: only the rows above the first separator are measured
MaxLensAboveSeparator(od, colcount) ==
    LET data == StrRows(od)
        above(j) == \A h \in 1..j : ~od[h].isnone
    IN  [i \in 1..colcount |->
            MaxOf({0} \cup {Len(data[k][i]) :
                      k \in {j \in DOMAIN od : above(j) /\ i <= Len(data[j])}})]

\* lines 49-55: the widest cell of each column
MaxLens(od, colcount) ==
    LET data == StrRows(od)
    IN  [i \in 1..colcount |->
            MaxOf({0} \cup {Len(data[k][i]) :
                      k \in {j \in DOMAIN od : ~od[j].isnone /\ i <= Len(data[j])}})]

\* lines 56-68: one line per row, joined by newlines.  zip(row, maxlens)
\* stops at the shorter of the two; i of enumerate counts from 0.
RenderRows(od, rj, maxlens) ==
    LET data == StrRows(od)
        line(k) ==
            IF od[k].isnone
            THEN join("|", [i \in DOMAIN maxlens |-> repeat("-", maxlens[i])])
            ELSE LET n == IF Len(data[k]) < Len(maxlens)
                          THEN Len(data[k]) ELSE Len(maxlens)
                 IN  join("|", [i \in 1..n |->
                        IF (i - 1) \in rj
                        THEN py_rjust(data[k][i], maxlens[i])
                        ELSE py_ljust(data[k][i], maxlens[i])])
    IN  join("\n", [k \in DOMAIN od |-> line(k)])

format_pretty_table(od, rj) ==
    IF \A k \in DOMAIN od : od[k].isnone
    THEN Raised("ValueError")                  \* max() of an empty sequence
    ELSE LET colcount == ColCount(od)
         IN  IF \E k \in DOMAIN od : Len(od[k].cells) > colcount
             THEN Raised("IndexError")         \* maxlens[i] past its end
             ELSE Returned(RenderRows(od, rj, MaxLens(od, colcount)))

\* bounds of the renderer's inputs
MaxRows == 3
CellCounts == 0..2
CellPool == {StrCell(""), StrCell("ab"), IntCell(-1)}
RjustPool == {{}, {0}, {1, 2, 3}}

RowPool ==
    {None} \cup {Row(c) : c \in UNION {[1..n -> CellPool] : n \in CellCounts}}

TableInputs == UNION {[1..n -> RowPool] : n \in 0..MaxRows}

InitTable ==
    /\ origdata \in TableInputs
    /\ rjust \in RjustPool
    /\ table = <<>>
    /\ desired = "" /\ gotten = "" /\ matched = <<>>
    /\ ProgramIdle

CallFormatPrettyTable ==
    /\ pc = "idle"
    /\ table = <<>>
    /\ table' = <<format_pretty_table(origdata, rjust)>>
    /\ UNCHANGED <<origdata, rjust, desired, gotten, matched, progvars>>

NextTable == CallFormatPrettyTable

SpecTable == InitTable /\ [][NextTable]_vars

\* s.split(sep) for a one-character sep: the pieces between its occurrences
split(s, sep) ==
    LET hits == {i \in 1..Len(s) : Char(s, i) = sep}
        n == Cardinality(hits)
        \* the k-th occurrence, 0 before the first and Len(s) + 1 after the last
        at == [k \in 0..(n + 1) |->
                  IF k = 0 THEN 0
                  ELSE IF k = n + 1 THEN Len(s) + 1
                  ELSE CHOOSE i \in hits :
                           Cardinality({j \in hits : j < i}) = k - 1]
    IN  [k \in 1..(n + 1) |-> SubSeq(s, at[k - 1] + 1, at[k] - 1)]

RECURSIVE SumOf(_)
SumOf(seq) == IF seq = <<>> THEN 0 ELSE Head(seq) + SumOf(Tail(seq))

\* the rows of the argument that are not separators
CellRows == {k \in DOMAIN origdata : ~origdata[k].isnone}

\* the width of column i: the longest str() of a cell at index i, over the
\* rows that have one
WidthOf(i) ==
    MaxOf({0} \cup {Len(pystr(origdata[k].cells[i])) :
              k \in {j \in CellRows : i <= Len(origdata[j].cells)}})

\* field i of a rendered row: the cell, its padding on the left for a column
\* of rjust and on the right otherwise
PaddedCell(k, i) ==
    LET c == pystr(origdata[k].cells[i])
        pad == repeat(" ", WidthOf(i) - Len(c))
    IN  IF (i - 1) \in rjust THEN pad \o c ELSE c \o pad

\* there is a row of cells, and every such row has the same n >= 1 cells
EvenTable(n) ==
    /\ n >= 1
    /\ CellRows # {}
    /\ \A k \in CellRows : Len(origdata[k].cells) = n

C9_UnevenRowsTolerated ==
    (table # <<>> /\ CellRows # {}) =>
        /\ table[1].raised = ""
        /\ LET lines == split(table[1].value, "\n")
               colcount == MaxOf({Len(origdata[k].cells) : k \in CellRows})
           IN  /\ Len(lines) = Len(origdata)
               /\ \A k \in DOMAIN origdata :
                    LET m == IF origdata[k].isnone THEN colcount
                             ELSE Len(origdata[k].cells)
                        fields == split(lines[k], "|")
                    IN  IF m = 0 THEN lines[k] = ""
                        ELSE /\ Len(fields) = m
                             /\ \A i \in 1..m : Len(fields[i]) = WidthOf(i)

\* a table was rendered whose header row has fewer cells than a row below it
C9_Witness ==
    /\ table # <<>> /\ table[1].raised = ""
    /\ Len(origdata) = 3
    /\ ~origdata[1].isnone /\ origdata[2].isnone /\ ~origdata[3].isnone
    /\ Len(origdata[1].cells) = 1 /\ Len(origdata[3].cells) = 2

(***************************************************************************)
(* The program: helpers                                                    *)
(***************************************************************************)
\* int(s) of a string of decimal digits
DigitValue(c) == CHOOSE d \in 0..9 : Char("0123456789", d + 1) = c

RECURSIVE int(_)
int(s) ==
    IF Len(s) = 1 THEN DigitValue(s)
    ELSE 10 * int(SubSeq(s, 1, Len(s) - 1)) + DigitValue(Char(s, Len(s)))

\* exe.split("/")[-1].split("-")[1]
extract_exe_ver(exe) ==
    LET segments == split(exe, "/")
    IN  split(segments[Len(segments)], "-")[2]

\* tuple(map(int, extract_exe_ver(exe).split(".")))
extract_exe_ver_int_tuple(exe) ==
    LET parts == split(extract_exe_ver(exe), ".")
    IN  [i \in DOMAIN parts |-> int(parts[i])]

\* a < b and a <= b of two tuples of ints, as Python compares them
TupleLess(a, b) ==
    \/ \E i \in 1..Len(a) :
          /\ i <= Len(b)
          /\ \A j \in 1..(i - 1) : a[j] = b[j]
          /\ a[i] < b[i]
    \/ /\ Len(a) < Len(b)
       /\ \A j \in 1..Len(a) : a[j] = b[j]

TupleLessEq(a, b) == a = b \/ TupleLess(a, b)

\* sorted(seq, key=extract_exe_ver_int_tuple): stable, ascending
RECURSIVE sorted(_)
sorted(seq) ==
    IF seq = <<>> THEN <<>>
    ELSE LET front == sorted(SubSeq(seq, 1, Len(seq) - 1))
             x == seq[Len(seq)]
             keep == {i \in DOMAIN front :
                        TupleLessEq(extract_exe_ver_int_tuple(front[i]),
                                    extract_exe_ver_int_tuple(x))}
             n == Cardinality(keep)
         IN  SubSeq(front, 1, n) \o <<x>> \o SubSeq(front, n + 1, Len(front))

\* a faulty variant: the list is left in the order glob gave it
SameOrder(g) == g

\* line 147
SortedExes(g) == sorted(g)

\* for each Python version what Ubuntu LTS it ships on
VERSION_NOTES ==
    (<<3, 5>> :> " no f-strings ") @@ (<<3, 6>> :> " Ubuntu 18 ") @@
    (<<3, 8>> :> " Ubuntu 20 ") @@ (<<3, 10>> :> " Ubuntu 22 ") @@
    (<<3, 12>> :> " Ubuntu 24 ")

get_note_for_exe(exe) ==
    LET whole == extract_exe_ver_int_tuple(exe)
        ver == SubSeq(whole, 1, IF Len(whole) < 2 THEN Len(whole) ELSE 2)
    IN  IF ver \in DOMAIN VERSION_NOTES THEN VERSION_NOTES[ver] ELSE ""

SIGNIFICAN_HASH_CHARS == 35

\* hashlib.sha512(b).hexdigest(), for the outputs a child of the model writes
SHA512_HEXDIGEST ==
    ("" :> "cf83e1357eefb8bdf1542850d66d8007d620e4050b5715dc83f4a921d36ce9ce47d0d13c5d85f2b0ff8318d2877eec2f63b931bd47417a81a538327af927da3e") @@
    ("a" :> "1f40fc92da241694750979ee6cf582f2d5d7d28e18335de05abc54d0560e0f5302860c652bf08d560252aa5e74210546f369fbbbce8c12cfc7957b2652fe9a75") @@
    ("b" :> "5267768822ee624d48fce15ec5ca79cbd602cb7f4c2157a516556991f22ef8c7b5ef7b18d1ff41c59370efb0858651d44a936c11b7b144c48fe04df3c6a3e8da") @@
    ("ab" :> "2d408a0717ec188158278a796c689044361dc6fdde28d6f04973b80896e1823975cdbf12eb63f9e0591328ee235d80e9b5bf1aa6a44f4617ff3caf6400eb172d")

\* line 121
StdoutHash(bytes) == SubSeq(SHA512_HEXDIGEST[bytes], 1, SIGNIFICAN_HASH_CHARS)

\* shlex.quote and shlex.join
SafeChars ==
    LET safe == "abcdefghijklmnopqrstuvwxyzABCDEFGHIJKLMNOPQRSTUVWXYZ0123456789_@%+=:,./-"
    IN  {Char(safe, i) : i \in 1..Len(safe)}

shlex_quote(s) ==
    IF s = "" THEN "''"
    ELSE IF \A i \in 1..Len(s) : Char(s, i) \in SafeChars THEN s
    ELSE "'" \o replace(s, "'", "'\"'\"'") \o "'"

shlex_join(args) == join(" ", [i \in DOMAIN args |-> shlex_quote(args[i])])

(***************************************************************************)
(* sys.stdout: print() writes to the text layer, which hands its pending   *)
(* text to the byte buffer when flushed (at once, when line-buffered);     *)
(* sys.stdout.buffer.write() writes to the byte buffer directly; the file  *)
(* descriptor gets the byte buffer's content when it is flushed.           *)
(***************************************************************************)
flush(out) ==
    [pending |-> "", buffer |-> "", fd |-> out.fd \o out.buffer \o out.pending]

print(out, text, tty) ==
    LET wrote == [out EXCEPT !.pending = @ \o text \o "\n"]
    IN  IF tty THEN flush(wrote) ELSE wrote

buffer_write(out, bytes) == [out EXCEPT !.buffer = @ \o bytes]

\* a faulty variant: the text layer is not flushed before the bytes are written
DumpStdoutUnflushed(out, bytes) == flush(buffer_write(out, bytes))

\* lines 116-118
DumpStdout(out, bytes) == flush(buffer_write(flush(out), bytes))

(***************************************************************************)
(* The program: main and run_all                                           *)
(***************************************************************************)
\* bounds of the program's inputs and of its children
MaxExes == 3
VersionPool == {"3.6.9", "3.8.10", "3.10.2", "3.10.4"}
ExitCodes == {0, 3}
\* what a child may write to its standard output, chunk by chunk
ChildOutputs == {<<>>, <<"a">>, <<"b">>, <<"a", "b">>}
ArgvPool ==
    { <<"anypython.py">>,
      <<"anypython.py", "3">>,
      <<"anypython.py", "all", "x.py", "a b">>,
      <<"anypython.py", "3.8">>,
      <<"anypython.py", "3.8", "x.py", "a b">>,
      <<"anypython.py", "3.10", "x.py">>,
      <<"anypython.py", "38">>,
      <<"anypython.py", "2.7", "x.py">> }

\* a path the pattern of line 146 matches
PathOf(ver) == "D:\\anypython\\python-" \o ver \o "-embed-win32\\python.exe"

\* glob.glob gives the matching paths in an order of its own
GlobOrders(paths) ==
    {g \in [1..Cardinality(paths) -> paths] :
        \A i, j \in 1..Cardinality(paths) : g[i] = g[j] => i = j}

Init ==
    /\ argv \in ArgvPool
    /\ installed \in {PS \in SUBSET {PathOf(v) : v \in VersionPool} :
                         Cardinality(PS) <= MaxExes}
    /\ ttyout \in BOOLEAN
    /\ pc = "main"
    /\ exes = <<>> /\ found = <<>> /\ procs = <<>> /\ captured = ""
    /\ rows = <<>> /\ counts = <<>> /\ idx = 0
    /\ stdout = [pending |-> "", buffer |-> "", fd |-> ""]
    /\ stderr = <<>> /\ exit_status = <<>>
    /\ NoCall

\* sys.argv[2:]
ExtraArgs(av) == SubSeq(av, 3, Len(av))

\* a child process: its command line, whether its stdout is a pipe to the
\* parent, the chunks it has written, the bytes in the pipe not yet read,
\* and <<>> or <<its exit code>>
Popen(args, piped) ==
    [args |-> args, piped |-> piped, wrote |-> <<>>, pipe |-> "",
     returncode |-> <<>>]

Running(p) == procs[p].returncode = <<>>

\* a faulty variant: one character is enough
BadArgsLenOne(av) == Len(av) < 2 \/ Len(av[2]) < 1

\* line 150: len(sys.argv) < 2 or len(sys.argv[1]) < 2
BadArgs(av) == Len(av) < 2 \/ Len(av[2]) < 2

\* one eprint per executable: lines 154-155, 172-173, 179-180
VersionLines(list) == [i \in DOMAIN list |-> extract_exe_ver(list[i])]

\* lines 163-167
RECURSIVE FindMatching(_, _)
FindMatching(list, want) ==
    IF list = <<>> THEN <<>>
    ELSE (IF matching_version(want, extract_exe_ver(Head(list)))
          THEN <<Head(list)>> ELSE <<>>) \o FindMatching(Tail(list), want)

\* a faulty variant: every available version is listed, as for no match
AmbiguousReportOfAll(list, fnd) ==
    <<"Found more than one matching version:">> \o VersionLines(list)

\* lines 178-180
AmbiguousReport(list, fnd) ==
    <<"Found more than one matching version:">> \o VersionLines(fnd)

\* a faulty variant: the extra arguments are not passed on
SingleArgsBare(fnd, av) == <<fnd[1]>>

\* line 184: [found[0]] + sys.argv[2:]
SingleArgs(fnd, av) == <<fnd[1]>> \o ExtraArgs(av)

\* lines 95-105
HeaderRow ==
    Row(<< StrCell(" Executable "), StrCell(" Version "), StrCell("Code"),
           StrCell(" Stdout Hash " \o str(SIGNIFICAN_HASH_CHARS)
                   \o " chars of SHA512 "),
           StrCell(" Note"), StrCell(" # ") >>)

\* sys.exit(status), or main returning (status 0): the interpreter flushes
\* sys.stdout as it ends
Exit(out, status) ==
    /\ pc' = "exited"
    /\ exit_status' = <<status>>
    /\ stdout' = flush(out)

\* main, lines 146-184, up to the first call that blocks: glob and sort, the
\* argument check, then the start of the batch or the search for the one
\* matching executable and its start
Main ==
    /\ pc = "main"
    /\ \E g \in GlobOrders(installed) :
        LET sortedexes == SortedExes(g)
        IN  /\ exes' = sortedexes
            /\ IF BadArgs(argv)
               THEN /\ stderr' = <<"Pass version (2+ chars) or 'all' and any extra arguments, available versions:">>
                                 \o VersionLines(sortedexes)
                    /\ Exit(stdout, 1)
                    /\ UNCHANGED <<found, procs, rows, counts, idx>>
               ELSE IF argv[2] = "all"
               THEN /\ rows' = <<HeaderRow, None>>
                    /\ counts' = <<>>
                    /\ idx' = 1
                    /\ pc' = "run_all_for"
                    /\ UNCHANGED <<found, procs, stdout, stderr, exit_status>>
               ELSE LET fnd == FindMatching(sortedexes, argv[2])
                    IN  /\ found' = fnd
                        /\ UNCHANGED <<rows, counts, idx>>
                        /\ IF Len(fnd) = 0
                           THEN /\ stderr' = <<"Found no matching exes, available versions:">>
                                             \o VersionLines(sortedexes)
                                /\ Exit(stdout, 1)
                                /\ UNCHANGED procs
                           ELSE IF Len(fnd) > 1
                           THEN /\ stderr' = AmbiguousReport(sortedexes, fnd)
                                /\ Exit(stdout, 1)
                                /\ UNCHANGED procs
                           ELSE /\ procs' = <<Popen(SingleArgs(fnd, argv), FALSE)>>
                                /\ pc' = "main_wait"
                                /\ UNCHANGED <<stdout, stderr, exit_status>>
    /\ UNCHANGED <<argv, installed, ttyout, captured, fnvars>>

\* line 185: subprocess.run has returned, sys.exit(result.returncode)
MainExit ==
    /\ pc = "main_wait"
    /\ ~Running(1)
    /\ Exit(stdout, procs[1].returncode[1])
    /\ UNCHANGED <<argv, installed, ttyout, exes, found, procs, captured,
                   rows, counts, idx, stderr, fnvars>>

\* run_all, lines 108-112: the next executable; print the command line and
\* start the child with its stdout in a pipe
RunAllStart ==
    /\ pc = "run_all_for"
    /\ idx <= Len(exes)
    /\ LET args == <<exes[idx]>> \o ExtraArgs(argv)
       IN  /\ stdout' = print(stdout, shlex_join(args) \o " # running", ttyout)
           /\ procs' = Append(procs, Popen(args, TRUE))
    /\ captured' = ""
    /\ pc' = "run_all_wait"
    /\ UNCHANGED <<argv, installed, ttyout, exes, found, rows, counts, idx,
                   stderr, exit_status, fnvars>>

\* a running child writes its next chunk: into its pipe, or to the stdout it
\* has inherited from the parent
ChildWrite ==
    /\ \E p \in DOMAIN procs, script \in ChildOutputs :
        /\ Running(p)
        /\ Len(procs[p].wrote) < Len(script)
        /\ SubSeq(script, 1, Len(procs[p].wrote)) = procs[p].wrote
        /\ LET chunk == script[Len(procs[p].wrote) + 1]
           IN  IF procs[p].piped
               THEN /\ procs' = [procs EXCEPT ![p].wrote = Append(@, chunk),
                                              ![p].pipe = @ \o chunk]
                    /\ UNCHANGED stdout
               ELSE /\ procs' = [procs EXCEPT ![p].wrote = Append(@, chunk)]
                    /\ stdout' = [stdout EXCEPT !.fd = @ \o chunk]
    /\ UNCHANGED <<argv, installed, ttyout, pc, exes, found, captured, rows,
                   counts, idx, stderr, exit_status, fnvars>>

\* a running child exits with a code of its choice
ChildExit ==
    /\ \E p \in DOMAIN procs, code \in ExitCodes :
        /\ Running(p)
        /\ procs' = [procs EXCEPT ![p].returncode = <<code>>]
    /\ UNCHANGED <<argv, installed, ttyout, pc, exes, found, captured, rows,
                   counts, idx, stdout, stderr, exit_status, fnvars>>

\* subprocess.run(stdout=PIPE), waiting: it reads what is in the pipe
CommunicateRead ==
    /\ pc = "run_all_wait"
    /\ procs[Len(procs)].pipe # ""
    /\ captured' = captured \o procs[Len(procs)].pipe
    /\ procs' = [procs EXCEPT ![Len(procs)].pipe = ""]
    /\ UNCHANGED <<argv, installed, ttyout, pc, exes, found, rows, counts,
                   idx, stdout, stderr, exit_status, fnvars>>

\* a faulty variant: the count is kept per return code cell, rows[-1][-4]
CountKeyCode(row) == row.cells[Len(row.cells) - 3].s

\* lines 133 and 136: rows[i][-3], the stdout hash cell
CountKey(row) == row.cells[Len(row.cells) - 2].s

\* lines 123-132
ResultRow(exe, returncode, h) ==
    Row(<< StrCell(" " \o exe \o " "),
           StrCell(extract_exe_ver(exe) \o " "),
           StrCell(str(returncode) \o " "),
           StrCell(" " \o h \o " "),
           StrCell(get_note_for_exe(exe)),
           IntCell(-1) >>)

\* run_all, lines 112-133: subprocess.run returns once the child has exited
\* and its pipe is read to the end; dump its stdout, print the status line,
\* add the row and count the hash
RunAllCollect ==
    /\ pc = "run_all_wait"
    /\ ~Running(Len(procs))
    /\ procs[Len(procs)].pipe = ""
    /\ LET returncode == procs[Len(procs)].returncode[1]
           h == StdoutHash(captured)
           row == ResultRow(exes[idx], returncode, h)
           key == CountKey(row)
       IN  /\ stdout' = print(DumpStdout(stdout, captured),
                              "Return code = " \o str(returncode)
                                  \o " and hash of stdout = " \o h \o "\n",
                              ttyout)
           /\ rows' = Append(rows, row)
           /\ counts' = IF key \in DOMAIN counts
                        THEN [counts EXCEPT ![key] = @ + 1]
                        ELSE (key :> 1) @@ counts
    /\ idx' = idx + 1
    /\ pc' = "run_all_for"
    /\ UNCHANGED <<argv, installed, ttyout, exes, found, procs, captured,
                   stderr, exit_status, fnvars>>

\* run_all, lines 135-139, and the return of main at line 160: the counts go
\* into the last cell of every data row, the table is printed
RunAllFinish ==
    /\ pc = "run_all_for"
    /\ idx > Len(exes)
    /\ LET counted == [i \in DOMAIN rows |->
                          IF i < 3 THEN rows[i]
                          ELSE [rows[i] EXCEPT !.cells[Len(rows[i].cells)] =
                                   StrCell(" " \o str(counts[CountKey(rows[i])]))]]
           text == format_pretty_table(counted, {1, 2, 3})
       IN  /\ rows' = counted
           /\ IF text.raised = ""
              THEN Exit(print(stdout, text.value, ttyout), 0)
              ELSE Exit(stdout, 1)
    /\ UNCHANGED <<argv, installed, ttyout, exes, found, procs, captured,
                   counts, idx, stderr, fnvars>>

Next ==
    \/ Main
    \/ MainExit
    \/ RunAllStart
    \/ ChildWrite
    \/ ChildExit
    \/ CommunicateRead
    \/ RunAllCollect
    \/ RunAllFinish

Spec == Init /\ [][Next]_vars

(***************************************************************************)
(* What the claims about the program speak of                              *)
(***************************************************************************)
\* the declared version of an installed path, and the versions installed
DeclaredOf(path) == CHOOSE v \in VersionPool : PathOf(v) = path
InstalledVersions == {DeclaredOf(path) : path \in installed}

\* the place of each version of the pool in the ascending order of its
\* integer components: 3.6.9 < 3.8.10 < 3.10.2 < 3.10.4
VersionRank ==
    ("3.6.9" :> 1) @@ ("3.8.10" :> 2) @@ ("3.10.2" :> 3) @@ ("3.10.4" :> 4)

\* the versions of V in that order
Ascending(V) ==
    [i \in 1..Cardinality(V) |->
        CHOOSE v \in V :
            Cardinality({w \in V : VersionRank[w] < VersionRank[v]}) = i - 1]

\* the modes of the command line
HasSpecifier == Len(argv) >= 2 /\ Len(argv[2]) >= 2
BatchMode == HasSpecifier /\ argv[2] = "all"
SingleMode == HasSpecifier /\ argv[2] # "all"
Extra == SubSeq(argv, 3, Len(argv))

\* the installed versions that sys.argv[1] matches
Matching == {v \in InstalledVersions : matching_version(argv[2], v)}

TheThree == {"3.6.9", "3.8.10", "3.10.2"}

UsageLine ==
    "Pass version (2+ chars) or 'all' and any extra arguments, available versions:"
NoMatchLine == "Found no matching exes, available versions:"

\* C2 as first stated: with 3.6.9, 3.8.10 and 3.10.2 installed, the
\* specifier "3" matches none of them and the program ends in the "no
\* matching" report that lists the three versions, with exit status 1.
C2_ReportsNoMatch ==
    (pc = "exited" /\ Len(argv) = 2 /\ argv[2] = "3"
        /\ InstalledVersions = TheThree) =>
        /\ \A v \in TheThree : ~matching_version("3", v)
        /\ stderr = <<NoMatchLine, "3.6.9", "3.8.10", "3.10.2">>
        /\ exit_status = <<1>>

\* C2, amended: with 3.6.9, 3.8.10 and 3.10.2 installed, the specifier "3",
\* being shorter than two characters, ends in the usage report: the usage
\* line and the three versions in sorted order on the error stream, exit
\* status 1, no search and no child.  (matching_version itself accepts "3"
\* for 3.6.9 alone, by the dot-less rule: "369" is "3" + "69".)
C2_ReportsUsage ==
    (pc = "exited" /\ Len(argv) = 2 /\ argv[2] = "3"
        /\ InstalledVersions = TheThree) =>
        /\ {v \in TheThree : matching_version("3", v)} = {"3.6.9"}
        /\ stderr = <<UsageLine, "3.6.9", "3.8.10", "3.10.2">>
        /\ exit_status = <<1>>
        /\ found = <<>> /\ procs = <<>>

\* the program has ended on the specifier "3" with the three versions installed
C2_Witness ==
    /\ pc = "exited" /\ Len(argv) = 2 /\ argv[2] = "3"
    /\ InstalledVersions = TheThree
    /\ Len(stderr) = 4

\* C3: in single-match mode with exactly one matching version, one child is
\* started and no other: the matching executable with the extra arguments
\* after it, unchanged and in order; the program ends with the exit code of
\* that child as its own status.  "3.8" among 3.6.9, 3.8.10, 3.10.2 runs 3.8.10.
C3_RunsTheOneMatch ==
    (SingleMode /\ Cardinality(Matching) = 1 /\ pc # "main") =>
        /\ Len(procs) = 1
        /\ \E v \in Matching : procs[1].args = <<PathOf(v)>> \o Extra
        /\ (argv[2] = "3.8" /\ InstalledVersions = TheThree)
              => procs[1].args[1] = PathOf("3.8.10")
        /\ pc = "exited" => ~Running(1) /\ exit_status = procs[1].returncode

\* "3.8 x.py 'a b'" has run 3.8.10 among the three, and the child's exit
\* code 3 is the program's status
C3_Witness ==
    /\ pc = "exited" /\ SingleMode
    /\ argv[2] = "3.8" /\ Extra = <<"x.py", "a b">>
    /\ InstalledVersions = TheThree
    /\ Len(procs) = 1 /\ procs[1].returncode = <<3>> /\ exit_status = <<3>>

\* C4: in single-match mode no child is ever started when no version or
\* more than one version matches; the program ends with status 1, and the
\* lines after the first of the error stream are every installed version in
\* sorted order (no match), or the matching versions and no other, in sorted
\* order (more than one match).
C4_NoMatchAndAmbiguous ==
    (SingleMode /\ Cardinality(Matching) # 1) =>
        /\ procs = <<>>
        /\ pc \in {"main", "exited"}
        /\ pc = "exited" =>
            /\ exit_status = <<1>>
            /\ stderr # <<>>
            /\ Tail(stderr) =
                  IF Matching = {} THEN Ascending(InstalledVersions)
                  ELSE Ascending(Matching)

\* "3.10" has matched 3.10.2 and 3.10.4 beside a version it does not match,
\* and the program has ended
C4_Witness ==
    /\ pc = "exited" /\ SingleMode /\ argv[2] = "3.10"
    /\ Matching = {"3.10.2", "3.10.4"}
    /\ Cardinality(InstalledVersions) = 3
    /\ Len(stderr) = 3

\* the bytes child p has written, and their fingerprint
RECURSIVE Concat(_)
Concat(chunks) == IF chunks = <<>> THEN "" ELSE Head(chunks) \o Concat(Tail(chunks))

Bytes(p) == Concat(procs[p].wrote)
Fingerprint(p) == SubSeq(SHA512_HEXDIGEST[Bytes(p)], 1, 35)

\* s without the spaces at its two ends
RECURSIVE strip(_)
strip(s) ==
    IF s = "" THEN ""
    ELSE IF Char(s, 1) = " " THEN strip(SubSeq(s, 2, Len(s)))
    ELSE IF Char(s, Len(s)) = " " THEN strip(SubSeq(s, 1, Len(s) - 1))
    ELSE s

\* the counts shown, child by child: the last field of each line of the
\* table below its separator, the table being the last lines of the parent's
\* standard output, one per child under the header and the separator
ShownCounts ==
    LET lines == split(stdout.fd, "\n")
        first == Len(lines) - Len(procs)
    IN  [p \in DOMAIN procs |->
            LET fields == split(lines[first + p - 1], "|")
            IN  strip(fields[Len(fields)])]

\* C5: after a batch run the count shown for each record is the number of
\* records of the batch whose stdout fingerprint is the record's own, itself
\* included, whatever the exit codes and the positions; the outputs "a", "a",
\* "b" give 2, 2, 1.
C5_DuplicateCounts ==
    (BatchMode /\ pc = "exited") =>
        LET shown == ShownCounts
        IN  /\ \A p \in DOMAIN procs :
                  shown[p] =
                      str(Cardinality({q \in DOMAIN procs :
                                          Fingerprint(q) = Fingerprint(p)}))
            /\ (Len(procs) = 3 /\ Bytes(1) = "a" /\ Bytes(2) = "a"
                    /\ Bytes(3) = "b")
                  => shown = <<"2", "2", "1">>

\* a batch of three has ended with the outputs "a", "b", "a", the two equal
\* ones with different exit codes and apart from each other
C5_Witness ==
    /\ BatchMode /\ pc = "exited" /\ Len(procs) = 3
    /\ Bytes(1) = "a" /\ Bytes(2) = "b" /\ Bytes(3) = "a"
    /\ procs[1].returncode = <<0>> /\ procs[3].returncode = <<3>>
    /\ ShownCounts = <<"2", "1", "2">>

\* C6: in batch mode the children are the installed executables, each once,
\* in ascending order of the integer components of its version; at most one
\* child runs at a time, and when a child is started every earlier one has
\* exited with its pipe read to the end; whatever the exit codes, the batch
\* ends only after all have run, with status 0.
C6_SequentialBatch ==
    BatchMode =>
        /\ Len(procs) <= Cardinality(installed)
        /\ LET order == Ascending(InstalledVersions)
           IN  \A p \in DOMAIN procs :
                  procs[p].args = <<PathOf(order[p])>> \o Extra
        /\ Cardinality({p \in DOMAIN procs : Running(p)}) <= 1
        /\ \A p \in DOMAIN procs :
              p < Len(procs) => ~Running(p) /\ procs[p].pipe = ""
        /\ pc = "exited" =>
              /\ Len(procs) = Cardinality(installed)
              /\ \A p \in DOMAIN procs : ~Running(p) /\ procs[p].pipe = ""
              /\ exit_status = <<0>>

\* a batch over 3.6.9, 3.8.10 and 3.10.2 has ended, its first child with
\* exit code 3 and two chunks written
C6_Witness ==
    /\ BatchMode /\ pc = "exited"
    /\ InstalledVersions = TheThree
    /\ Len(procs) = 3
    /\ procs[1].returncode = <<3>> /\ procs[1].wrote = <<"a", "b">>
    /\ procs[3].args[1] = PathOf("3.10.2")

\* all that has been written to sys.stdout, flushed or not
Written == stdout.fd \o stdout.buffer \o stdout.pending

\* C7: in batch mode what subprocess.run has read from the running child's
\* pipe has been written to the parent's standard output, at the end of what
\* is written there, before more is read.
C7_RelayedLive ==
    (BatchMode /\ pc = "run_all_wait" /\ captured # "") =>
        /\ Len(captured) <= Len(Written)
        /\ SubSeq(Written, Len(Written) - Len(captured) + 1, Len(Written))
              = captured

\* the command line of child p as shlex.join writes it: the path holds
\* backslashes and goes in single quotes, as does "a b"; "x.py" stays bare
QuotedCommand(p) ==
    "'" \o procs[p].args[1] \o "'"
        \o (IF Extra = <<"x.py", "a b">> THEN " x.py 'a b'" ELSE "")

\* run_all has the result of child p
Collected(p) == p < Len(procs) \/ pc \in {"run_all_for", "exited"}

\* what the execution of child p puts on the parent's standard output
Segment(p) ==
    QuotedCommand(p) \o " # running\n"
        \o (IF Collected(p)
            THEN Bytes(p) \o "Return code = " \o str(procs[p].returncode[1])
                     \o " and hash of stdout = " \o Fingerprint(p) \o "\n\n"
            ELSE "")

Transcript == Concat([p \in DOMAIN procs |-> Segment(p)])

\* text is the table of the batch: the header, the separator, then the line
\* of each child in order of execution with its executable, version, exit
\* code and fingerprint
IsBatchTable(text) ==
    LET lines == split(text, "\n")
        stripped(k) == LET f == split(lines[k], "|")
                       IN  [i \in DOMAIN f |-> strip(f[i])]
    IN  /\ Len(lines) = Len(procs) + 3
        /\ lines[Len(lines)] = ""
        /\ stripped(1) = << "Executable", "Version", "Code",
                            "Stdout Hash 35 chars of SHA512", "Note", "#" >>
        /\ Len(split(lines[2], "|")) = 6
        /\ Len(lines[2]) = Len(lines[1])
        /\ \A i \in 1..Len(lines[2]) : Char(lines[2], i) \in {"-", "|"}
        /\ \A p \in DOMAIN procs :
              /\ Len(stripped(p + 2)) = 6
              /\ stripped(p + 2)[1] = procs[p].args[1]
              /\ stripped(p + 2)[2] = DeclaredOf(procs[p].args[1])
              /\ stripped(p + 2)[3] = str(procs[p].returncode[1])
              /\ stripped(p + 2)[4] = Fingerprint(p)

\* C10: the parent's standard output of a batch run is, for each child in
\* order, the quoted command line with "# running", then the bytes the child
\* wrote, as they are, then the status line with its exit code and the
\* fingerprint of those bytes; nothing else is written before the last
\* execution is over, and the table follows it: header, separator, one line
\* per child in order of execution with the child's own code and fingerprint.
C10_DocumentOrder ==
    BatchMode =>
        LET transcript == Transcript
        IN  /\ pc # "exited" => Written = transcript
            /\ pc = "exited" =>
                  /\ stdout.buffer = "" /\ stdout.pending = ""
                  /\ Len(stdout.fd) > Len(transcript)
                  /\ SubSeq(stdout.fd, 1, Len(transcript)) = transcript
                  /\ IsBatchTable(SubSeq(stdout.fd, Len(transcript) + 1,
                                         Len(stdout.fd)))

\* a batch of two has ended on a standard output that is not a terminal,
\* the first child having written "a" then "b", the second "b" with code 3
C10_Witness ==
    /\ BatchMode /\ pc = "exited" /\ ~ttyout
    /\ Len(procs) = 2
    /\ procs[1].wrote = <<"a", "b">> /\ procs[1].returncode = <<0>>
    /\ procs[2].wrote = <<"b">> /\ procs[2].returncode = <<3>>
    /\ stdout.fd # ""

====
